---- MODULE Spec2Model ----
(***************************************************************************)
(* Model of the text crawler: TextCrawler (crawler.py) driven by a host    *)
(* that calls crawl() and post-processes the result (api.py run_crawler).  *)
(*                                                                         *)
(* Spec          crawl() called, possibly twice, on one TextCrawler        *)
(* SpecLinks     the link step of an iteration over a wide choice of hrefs *)
(* SpecRedirects one crawl whose fetches may be redirected                 *)
(* SpecApi       the service of api.py: start, stop, background task       *)
(* SpecMain      the service of main.py running example.py at startup      *)
(* SpecCallback  crawl() with a progress callback that may raise           *)
(* SpecAnySeeds  crawl() of seeds the link filter would reject             *)
(* SpecLive      one crawl() call under fair scheduling of its steps       *)
(* SpecDb        save_crawled_data called on a growing table               *)
(*                                                                         *)
(* A URL is a sequence of tokens whose concatenation is the URL string,    *)
(* e.g. <<"http", "://", "x.test", "/a">>.  Tokens are cut so that the     *)
(* filtered file suffixes (".png", ...) are tokens of their own.           *)
(***************************************************************************)
EXTENDS Integers, Sequences, FiniteSets, TLC

\* ---------------------------------------------------------------- bounds
MaxPagesLimit == 2      \* max_pages is drawn from 0..MaxPagesLimit
MaxSeeds == 2           \* length of start_urls
MaxLinks == 2           \* number of anchors on a fetched page
MaxRuns == 2            \* crawl() calls made on one crawler object
MaxStarts == 2          \* POST /crawl requests the service accepts
MaxSaves == 3           \* save_crawled_data calls made on the table

\* max_pages=10 in run_example_crawler
ExampleMaxPages == 10

\* ---------------------------------------------------------------- URLs
UrlA == <<"http", "://", "x.test", "/a">>
UrlB == <<"http", "://", "x.test", "/b">>
UrlC == <<"https", "://", "x.test", "/c">>
UrlPng == <<"http", "://", "x.test", "/logo", ".png">>
RelB == <<"/b">>        \* the relative href "/b"
UrlBad == <<"http", "://", "[">>    \* "http://[": urlparse raises ValueError

UrlUpperPng == <<"http", "://", "x.test", "/logo", ".PNG">>
UrlQueryJs == <<"http", "://", "x.test", "/p", "?f=b", ".js">>
UrlFtp == <<"ftp", "://", "x.test", "/f">>
UrlNoHost == <<"http", "://", "", "/d">>           \* "http:///d"
UrlUpperScheme == <<"HTTP", "://", "x.test", "/e">>
UrlMailto == <<"mailto", ":", "a@b">>

\* URLs a caller passes as seeds
SeedUrls == {UrlA, UrlB}
\* href attribute values found in fetched documents
Hrefs == {UrlA, RelB, UrlC, UrlBad}
\* the wider choice of href values the link filter is exercised with
LinkHrefs == Hrefs \cup {UrlPng, UrlUpperPng, UrlQueryJs, UrlFtp, UrlNoHost,
                         UrlUpperScheme, UrlMailto}
\* seeds of the crawls the link filter is exercised in
LinkSeedUrls == {UrlA, UrlC}

RECURSIVE SeqsUpTo(_, _)
SeqsUpTo(S, n) ==
    IF n = 0 THEN {<<>>}
    ELSE LET shorter == SeqsUpTo(S, n - 1)
         IN shorter \cup {Append(s, x) : s \in {t \in shorter : Len(t) = n - 1}, x \in S}

SeedLists == SeqsUpTo(SeedUrls, MaxSeeds)
Htmls == SeqsUpTo(Hrefs, MaxLinks)

Range(s) == {s[i] : i \in 1..Len(s)}

\* ------------------------------------------------- link extraction (pure)
\* str.lower() on the scheme tokens that occur
Lower(tok) == IF tok = "HTTP" THEN "http" ELSE tok
\* urlparse(url).scheme: the text before the first ":", lowercased
UrlScheme(url) ==
    IF Len(url) >= 2 /\ url[2] \in {"://", ":"} THEN Lower(url[1]) ELSE ""
\* urlparse(url).netloc
UrlNetloc(url) == IF Len(url) >= 3 /\ url[2] = "://" THEN url[3] ELSE ""

\* urlsplit raises "Invalid IPv6 URL" for a host with an unmatched bracket
ParseRaises(url) == UrlNetloc(url) = "["

\* str.endswith over the suffix tuple of _is_valid_url
SkippedSuffixes == {".pdf", ".jpg", ".jpeg", ".png", ".gif", ".css", ".js"}
EndsWithSkipped_Never(url) == FALSE
EndsWithSkipped(url) == Len(url) > 0 /\ url[Len(url)] \in SkippedSuffixes

_is_valid_url(url) ==
    /\ ~ParseRaises(url)
    /\ UrlScheme(url) \in {"http", "https"}
    /\ UrlNetloc(url) # ""
    /\ ~EndsWithSkipped(url)

\* schemes urljoin resolves relative references for (those that occur)
UsesRelative == {"ftp", "http", "https"}
\* the path (and what follows it) of an href
UrlPath(href) == IF UrlScheme(href) # "" THEN SubSeq(href, 4, Len(href)) ELSE href
\* urljoin(base_url, href): an href of another scheme than the base's is
\* returned as written; one of the base's scheme is rebuilt from its parsed
\* parts (scheme lowercased), taking the base's host when it names none; an
\* href without scheme is an absolute path on the base's scheme and host.
urljoin(base, href) ==
    LET bscheme == UrlScheme(base)
        scheme == IF UrlScheme(href) # "" THEN UrlScheme(href) ELSE bscheme
    IN IF scheme # bscheme \/ scheme \notin UsesRelative THEN href
       ELSE IF UrlNetloc(href) # "" THEN <<scheme>> \o Tail(href)
       ELSE <<bscheme, "://", UrlNetloc(base)>> \o UrlPath(href)

\* urljoin parses both arguments
urljoin_raises(base, href) == ParseRaises(base) \/ ParseRaises(href)

\* _extract_links has no try block: the first href urljoin cannot parse
\* aborts the extraction with an exception.
_extract_links_raises(base_url, html) ==
    \E i \in 1..Len(html) : urljoin_raises(base_url, html[i])

\* The list _extract_links returns when it does not raise.
RECURSIVE _extract_links(_, _)
_extract_links(base_url, html) ==
    IF html = <<>> THEN <<>>
    ELSE LET absolute_url == urljoin(base_url, Head(html))
             rest == _extract_links(base_url, Tail(html))
         IN IF _is_valid_url(absolute_url) THEN <<absolute_url>> \o rest ELSE rest

\* ------------------------------------------------------- crawl loop pieces
LoopCondition_NoBudget(queue, count, limit) == queue # <<>>
LoopCondition_OffByOne(queue, count, limit) == queue # <<>> /\ count <= limit
\* while url_queue and self.page_count < self.max_pages
LoopCondition(queue, count, limit) == queue # <<>> /\ count < limit

Pop_Last(queue) ==
    [url |-> queue[Len(queue)], rest |-> SubSeq(queue, 1, Len(queue) - 1)]
\* url = url_queue.pop(0)
Pop(queue) == [url |-> Head(queue), rest |-> Tail(queue)]

IsVisited_Never(u, visited) == FALSE
\* if url in self.visited_urls: continue
IsVisited(u, visited) == u \in visited

BudgetLeft_Always(count, limit) == TRUE
\* if self.page_count < self.max_pages (before extracting links)
BudgetLeft(count, limit) == count < limit

EnqueueLinks_All(queue, links, visited) == queue \o links
\* for link in new_links: if link not in visited and link not in queue: append
RECURSIVE EnqueueLinks(_, _, _)
EnqueueLinks(queue, links, visited) ==
    IF links = <<>> THEN queue
    ELSE LET link == Head(links)
             q2 == IF link \notin visited /\ link \notin Range(queue)
                   THEN Append(queue, link) ELSE queue
         IN EnqueueLinks(q2, Tail(links), visited)

MarkVisited_Forget(visited, u) == visited
\* self.visited_urls.add(url)
MarkVisited(visited, u) == visited \cup {u}

\* response.url values the fetcher can report for a requested URL: the URL
\* itself, or the target of a redirect (requests follows redirects)
FinalUrls(requested) == {requested, UrlC}

ResultUrl_Final(requested, final) == final
\* 'url': url in the dictionary _fetch_page returns
ResultUrl(requested, final) == requested

\* rows of the table with the URL of data: filter(CrawledPage.url == data['url'])
RowsWithUrl(table, u) == {i \in DOMAIN table : table[i].url = u}

save_crawled_data_AlwaysInsert(data, table, t) ==
    Append(table, [id |-> Len(table) + 1, url |-> data.url, title |-> data.title,
                   created_at |-> t, updated_at |-> 0])
\* save_crawled_data(data, db_session) on a table, at server time t: the
\* first row with the URL gets the content of data, and its updated_at is
\* stamped when the UPDATE changes a column; without such a row a new one
\* is added with the next id.  title stands for all content columns;
\* updated_at is 0 while NULL.
save_crawled_data(data, table, t) ==
    IF RowsWithUrl(table, data.url) # {}
    THEN LET first == CHOOSE i \in RowsWithUrl(table, data.url) :
                          \A j \in RowsWithUrl(table, data.url) : i <= j
         IN [table EXCEPT ![first].title = data.title,
                          ![first].updated_at =
                              IF table[first].title # data.title THEN t ELSE @]
    ELSE Append(table, [id |-> Len(table) + 1, url |-> data.url,
                        title |-> data.title, created_at |-> t, updated_at |-> 0])

\* get_stats() without the database part
get_stats(count, visited, data) ==
    [pages_crawled |-> count, urls_visited |-> Cardinality(visited),
     data_collected |-> Len(data)]

\* ------------------------------------------------------------------ state
VARIABLES
    max_pages,      \* TextCrawler.max_pages
    use_database,   \* TextCrawler.use_database
    visited_urls,   \* TextCrawler.visited_urls
    crawled_data,   \* TextCrawler.crawled_data: sequence of page_data records
    page_count,     \* TextCrawler.page_count
    pc,             \* position of the caller / the crawl loop
    start_urls,     \* argument of the crawl() call in progress
    has_callback,   \* whether that call was given a progress_callback
    url_queue,      \* local url_queue of crawl()
    url,            \* local url of the current iteration (<<>> outside one)
    page_data,      \* <<>> (None) or <<record>>: result of _fetch_page
    returned,       \* value returned by the last completed crawl() call
    errors,         \* crawler_status["errors"] of the hosting layer
    runs,           \* number of crawl() calls made on this crawler
    fetch_log,      \* history: fetch attempts of this run, [url, ok]
    enq_log,        \* history: URLs inserted into url_queue in this run
    deq_log,        \* history: URLs popped from url_queue in this run
    cb_log,         \* history: arguments passed to progress_callback
    sleeps,         \* history: number of time.sleep(delay) calls in this run
    crawler_global, \* the hosting module's global crawler is set (not None)
    crawler_status, \* the hosting module's crawler_status, without "errors"
    tasks,          \* background tasks added and not yet begun: their urls
    now,            \* the clock: the next value time.time() returns
    starts,         \* number of POST /crawl requests accepted
    crawler_results,    \* main.crawler_results: <<>> (None) or <<list>>
    example_results,    \* example.crawler_results: <<>> (None) or <<list>>
    db_pages,       \* table crawled_pages: its rows in the order of their id
    save_log,       \* history: the data of the completed save_crawled_data calls
    response        \* the service's answer to the latest POST /crawl or /crawl/stop

vars == <<max_pages, use_database, visited_urls, crawled_data, page_count,
          pc, start_urls, has_callback, url_queue, url, page_data, returned, errors, runs,
          fetch_log, enq_log, deq_log, cb_log, sleeps, crawler_global,
          crawler_status, tasks, now, starts, crawler_results,
          example_results, db_pages, save_log, response>>

crawler == <<max_pages, use_database, visited_urls, crawled_data, page_count>>
history == <<fetch_log, enq_log, deq_log, cb_log, sleeps>>
host == <<crawler_global, crawler_status, tasks, now, starts, crawler_results,
          example_results, db_pages, save_log, response>>
\* the host but for the database
host_state == <<crawler_global, crawler_status, tasks, now, starts,
                crawler_results, example_results, response>>

\* The hosting module is loaded: its globals as the module body leaves
\* them.  A time that is None is written 0.
InitHost ==
    /\ crawler_global = FALSE
    /\ crawler_status = [is_running |-> FALSE, start_time |-> 0, end_time |-> 0,
                         pages_crawled |-> 0, last_activity |-> 0]
    /\ tasks = <<>>
    /\ now = 1
    /\ starts = 0
    /\ crawler_results = <<>>
    /\ example_results = <<>>
    /\ db_pages = <<>>
    /\ save_log = <<>>
    /\ response = [request |-> "none", code |-> 0]

\* The module is loaded and a TextCrawler is constructed, crawl() not yet
\* called: everything but the constructor's arguments.
InitRest ==
    /\ InitHost
    /\ visited_urls = {}
    /\ crawled_data = <<>>
    /\ page_count = 0
    /\ pc = "idle"
    /\ start_urls = <<>>
    /\ has_callback = FALSE
    /\ url_queue = <<>>
    /\ url = <<>>
    /\ page_data = <<>>
    /\ returned = <<>>
    /\ errors = <<>>
    /\ runs = 0
    /\ fetch_log = <<>>
    /\ enq_log = <<>>
    /\ deq_log = <<>>
    /\ cb_log = <<>>
    /\ sleeps = 0

\* TextCrawler.__init__ has run; the hosting layer's status record is fresh.
Init ==
    /\ max_pages \in 0..MaxPagesLimit
    /\ use_database = FALSE
    /\ InitRest

\* crawl() is an ordinary blocking call and every caller of the repository
\* calls it from one thread of control (run_crawler is a coroutine that calls
\* it without an await, so the event loop runs nothing else until it returns):
\* a caller, or a handler of the service, acts only at these positions.
NoCrawlExecuting_Always(position) == TRUE

NoCrawlExecuting(position) == position \in {"idle", "done"}

\* start_urls.copy(): the Frontier a crawl starts with
InitialQueue_Filtered(seeds) == SelectSeq(seeds, _is_valid_url)

InitialQueue(seeds) == seeds

\* crawl(start_urls, progress_callback): url_queue = start_urls.copy()
CrawlCall(seeds, cb) ==
    /\ NoCrawlExecuting(pc)
    /\ runs < MaxRuns
    /\ pc' = "loop"
    /\ runs' = runs + 1
    /\ start_urls' = seeds
    /\ has_callback' = cb
    /\ url_queue' = InitialQueue(seeds)
    /\ url' = <<>>
    /\ page_data' = <<>>
    /\ fetch_log' = <<>>
    /\ enq_log' = seeds
    /\ deq_log' = <<>>
    /\ cb_log' = <<>>
    /\ sleeps' = 0
    /\ UNCHANGED <<crawler, returned, errors>>

\* crawl() called by a caller that keeps no status
Crawl(seeds, cb) == CrawlCall(seeds, cb) /\ UNCHANGED host

\* Loop test true, url = url_queue.pop(0), url already visited: continue.
DiscardVisited ==
    /\ pc = "loop"
    /\ LoopCondition(url_queue, page_count, max_pages)
    /\ IsVisited(Pop(url_queue).url, visited_urls)
    /\ url_queue' = Pop(url_queue).rest
    /\ deq_log' = Append(deq_log, Pop(url_queue).url)
    /\ url' = Pop(url_queue).url
    /\ UNCHANGED <<crawler, pc, start_urls, has_callback, page_data, returned,
                   errors, runs, fetch_log, enq_log, cb_log, sleeps>>
    /\ UNCHANGED host

\* Loop test true, url = url_queue.pop(0), url not visited: go on to fetch it.
Dequeue ==
    /\ pc = "loop"
    /\ LoopCondition(url_queue, page_count, max_pages)
    /\ ~IsVisited(Pop(url_queue).url, visited_urls)
    /\ url_queue' = Pop(url_queue).rest
    /\ deq_log' = Append(deq_log, Pop(url_queue).url)
    /\ url' = Pop(url_queue).url
    /\ pc' = "fetch"
    /\ UNCHANGED <<crawler, start_urls, has_callback, page_data, returned,
                   errors, runs, fetch_log, enq_log, cb_log, sleeps>>
    /\ UNCHANGED host

\* _fetch_page(url) returns a page: append it, count it.  final is
\* response.url, html the anchors of response.text.
FetchSuccess(html, final) ==
    /\ pc = "fetch"
    /\ page_data' = <<[url |-> ResultUrl(url, final), html |-> html, final |-> final]>>
    /\ crawled_data' = Append(crawled_data, [url |-> ResultUrl(url, final)])
    /\ page_count' = page_count + 1
    /\ fetch_log' = Append(fetch_log, [url |-> url, ok |-> TRUE])
    /\ pc' = IF has_callback THEN "callback" ELSE "extract"
    /\ UNCHANGED <<use_database, max_pages, visited_urls, start_urls, has_callback, url_queue,
                   url, returned, errors, runs, enq_log, deq_log, cb_log, sleeps>>
    /\ UNCHANGED host

\* _fetch_page(url) catches the failure (connection error, timeout, or the
\* HTTPError of raise_for_status: all one except branch), logs it and
\* returns None; the loop marks the URL visited and sleeps.
FetchFailure ==
    /\ pc = "fetch"
    /\ page_data' = <<>>
    /\ fetch_log' = Append(fetch_log, [url |-> url, ok |-> FALSE])
    /\ visited_urls' = MarkVisited(visited_urls, url)
    /\ sleeps' = sleeps + 1
    /\ pc' = "loop"
    /\ UNCHANGED <<use_database, max_pages, crawled_data, page_count, start_urls, has_callback,
                   url_queue, url, returned, errors, runs, enq_log, deq_log, cb_log>>
    /\ UNCHANGED host

\* progress_callback(self.page_count) returns normally.
CallbackCall ==
    /\ pc = "callback"
    /\ cb_log' = Append(cb_log, page_count)
    /\ pc' = "extract"
    /\ UNCHANGED <<crawler, start_urls, has_callback, url_queue, url, page_data,
                   returned, errors, runs, fetch_log, enq_log, deq_log, sleeps>>

\* a callback that touches nothing of the host
CallbackReturns == CallbackCall /\ UNCHANGED host

\* as CallbackRaises would be with the sleep in a finally clause
CallbackRaises_Sleeps ==
    /\ pc = "callback"
    /\ cb_log' = Append(cb_log, page_count)
    /\ visited_urls' = MarkVisited(visited_urls, url)
    /\ pc' = "loop"
    /\ page_data' = <<>>
    /\ sleeps' = sleeps + 1
    /\ UNCHANGED <<use_database, max_pages, crawled_data, page_count, start_urls, has_callback,
                   url_queue, url, returned, errors, runs, fetch_log, enq_log,
                   deq_log>>
    /\ UNCHANGED host

\* progress_callback(self.page_count) raises: the except clause logs the
\* error and marks the URL visited; no links, no sleep.
CallbackRaises ==
    /\ pc = "callback"
    /\ cb_log' = Append(cb_log, page_count)
    /\ visited_urls' = MarkVisited(visited_urls, url)
    /\ pc' = "loop"
    /\ page_data' = <<>>
    /\ UNCHANGED <<use_database, max_pages, crawled_data, page_count, start_urls, has_callback,
                   url_queue, url, returned, errors, runs, fetch_log, enq_log,
                   deq_log, sleeps>>
    /\ UNCHANGED host

\* data as save_crawled_data reads it off a fetched page; the content
\* fields of a page (title, text, html, ...) are not told apart in a crawl
PageContent == "t1"
SavedData(page_url) == [url |-> page_url, title |-> PageContent]

\* _save_to_database(page_data): the table and the history afterwards.
\* Without use_database nothing is written; with it the row is written, or
\* the save fails and the exception is logged and swallowed.
_save_to_database(page_url) ==
    LET kept == [table |-> db_pages, log |-> save_log]
        written == [table |-> save_crawled_data(SavedData(page_url), db_pages, now),
                    log |-> Append(save_log, SavedData(page_url))]
    IN IF use_database THEN {written, kept} ELSE {kept}

\* The page is saved; budget is left and _extract_links raises on an
\* unparsable href: the except clause logs the error and marks the URL
\* visited; nothing is enqueued, no sleep.
ExtractRaises ==
    /\ pc = "extract"
    /\ BudgetLeft(page_count, max_pages)
    /\ _extract_links_raises(url, page_data[1].html)
    /\ visited_urls' = MarkVisited(visited_urls, url)
    /\ pc' = "loop"
    /\ page_data' = <<>>
    /\ UNCHANGED <<use_database, max_pages, crawled_data, page_count, start_urls, has_callback,
                   url_queue, url, returned, errors, runs, history>>
    /\ \E saved \in _save_to_database(url) :
          db_pages' = saved.table /\ save_log' = saved.log
    /\ UNCHANGED host_state

\* The page is saved; links of the fetched page, if budget is left; mark
\* visited; sleep.
ExtractAndMark ==
    /\ pc = "extract"
    /\ ~(BudgetLeft(page_count, max_pages)
          /\ _extract_links_raises(url, page_data[1].html))
    /\ LET new_links == IF BudgetLeft(page_count, max_pages)
                        THEN _extract_links(url, page_data[1].html)
                        ELSE <<>>
           queue2 == EnqueueLinks(url_queue, new_links, visited_urls)
       IN /\ url_queue' = queue2
          /\ enq_log' = enq_log \o SubSeq(queue2, Len(url_queue) + 1, Len(queue2))
    /\ visited_urls' = MarkVisited(visited_urls, url)
    /\ sleeps' = sleeps + 1
    /\ pc' = "loop"
    /\ page_data' = <<>>
    /\ UNCHANGED <<use_database, max_pages, crawled_data, page_count, start_urls, has_callback,
                   url, returned, errors, runs, fetch_log, deq_log, cb_log>>
    /\ \E saved \in _save_to_database(url) :
          db_pages' = saved.table /\ save_log' = saved.log
    /\ UNCHANGED host_state

\* Loop test false: crawl() returns self.crawled_data.
CrawlReturns ==
    /\ pc = "loop"
    /\ ~LoopCondition(url_queue, page_count, max_pages)
    /\ returned' = crawled_data
    /\ pc' = "done"
    /\ UNCHANGED <<crawler, start_urls, has_callback, url_queue, url, page_data,
                   runs, history>>

FinishStatus_KeepStop(status, n, t) ==
    IF status.is_running
    THEN [status EXCEPT !.is_running = FALSE, !.end_time = t,
                        !.pages_crawled = n, !.last_activity = t]
    ELSE status
\* crawler_status.update(...) of run_crawler after crawl() has returned
FinishStatus(status, n, t) ==
    [status EXCEPT !.is_running = FALSE, !.end_time = t,
                   !.pages_crawled = n, !.last_activity = t]

\* crawler_status.update(...) in the except clause of run_crawler and of
\* threaded_crawler (the error itself goes to the errors variable)
FailStatus(status, t) ==
    [status EXCEPT !.is_running = FALSE, !.end_time = t, !.last_activity = t]

\* run_crawler after crawl() has returned: the status is updated, then the
\* results are dumped to files when there are any; a failure of the dump is
\* appended to crawler_status["errors"] and the status stamped again.
Return(dump_ok) ==
    /\ CrawlReturns
    /\ errors' = IF crawled_data # <<>> /\ ~dump_ok
                 THEN Append(errors, "dump failed") ELSE errors
    /\ LET finished == FinishStatus(crawler_status, Len(crawled_data), now)
       IN IF crawled_data # <<>> /\ ~dump_ok
          THEN /\ crawler_status' = FailStatus(finished, now + 1)
               /\ now' = now + 2
          ELSE /\ crawler_status' = finished
               /\ now' = now + 1
    /\ UNCHANGED <<crawler_global, tasks, starts, crawler_results,
                   example_results, db_pages,
                   save_log,
                   response>>

Next ==
    \/ \E seeds \in SeedLists, cb \in BOOLEAN : Crawl(seeds, cb)
    \/ DiscardVisited
    \/ Dequeue
    \/ \E html \in Htmls : FetchSuccess(html, url)
    \/ FetchFailure
    \/ CallbackReturns
    \/ CallbackRaises
    \/ ExtractRaises
    \/ ExtractAndMark
    \/ \E dump_ok \in BOOLEAN : Return(dump_ok)

Spec == Init /\ [][Next]_vars

\* ------------------------------------------------------ the service (api)
\* Handlers and the background task are coroutines of one event loop, and
\* run_crawler calls the blocking crawl() without awaiting: a handler runs
\* only while no crawl is executing, that is between the acceptance of a
\* request and the begin of its background task, or after a task has ended.

\* if crawler_status["is_running"]: raise HTTPException(409) of start_crawl
StartAccepted_Always(status) == TRUE

StartAccepted(status) == ~status.is_running

\* if not crawler_status["is_running"]: raise HTTPException(409) of stop_crawl
StopAccepted_Always(status) == TRUE

StopAccepted(status) == status.is_running

\* POST /crawl accepted: a new TextCrawler replaces the global one, the
\* status is reset and run_crawler(request.urls) is added as background task.
start_crawl(urls, limit) ==
    /\ NoCrawlExecuting(pc)
    /\ StartAccepted(crawler_status)
    /\ starts < MaxStarts
    /\ max_pages' = limit
    /\ use_database' = FALSE
    /\ visited_urls' = {}
    /\ crawled_data' = <<>>
    /\ page_count' = 0
    /\ runs' = 0
    /\ crawler_global' = TRUE
    /\ crawler_status' = [is_running |-> TRUE, start_time |-> now, end_time |-> 0,
                          pages_crawled |-> 0, last_activity |-> now]
    /\ errors' = <<>>
    /\ tasks' = Append(tasks, urls)
    /\ now' = now + 1
    /\ starts' = starts + 1
    /\ response' = [request |-> "start", code |-> 200]
    /\ UNCHANGED <<pc, start_urls, has_callback, url_queue, url, page_data,
                   returned, history, crawler_results, example_results, db_pages,
                   save_log>>

\* POST /crawl while is_running: HTTPException(status_code=409) is raised
\* before anything is assigned.
start_crawl_conflict ==
    /\ NoCrawlExecuting(pc)
    /\ ~StartAccepted(crawler_status)
    /\ response' = [request |-> "start", code |-> 409]
    /\ UNCHANGED <<crawler, pc, start_urls, has_callback, url_queue, url,
                   page_data, returned, errors, runs, history, crawler_global,
                   crawler_status, tasks, now, starts, crawler_results,
                   example_results, db_pages, save_log>>

\* crawler_status.update(...) of stop_crawl
StopStatus(status, t) ==
    [status EXCEPT !.is_running = FALSE, !.end_time = t, !.last_activity = t]

\* POST /crawl/stop accepted
stop_crawl ==
    /\ NoCrawlExecuting(pc)
    /\ StopAccepted(crawler_status)
    /\ crawler_status' = StopStatus(crawler_status, now)
    /\ now' = now + 1
    /\ response' = [request |-> "stop", code |-> 200]
    /\ UNCHANGED <<crawler, pc, start_urls, has_callback, url_queue, url,
                   page_data, returned, errors, runs, history, crawler_global,
                   tasks, starts, crawler_results, example_results, db_pages,
                   save_log>>

\* POST /crawl/stop while not is_running: HTTPException(status_code=409) is
\* raised before the status is updated.
stop_crawl_conflict ==
    /\ NoCrawlExecuting(pc)
    /\ ~StopAccepted(crawler_status)
    /\ response' = [request |-> "stop", code |-> 409]
    /\ UNCHANGED <<crawler, pc, start_urls, has_callback, url_queue, url,
                   page_data, returned, errors, runs, history, crawler_global,
                   crawler_status, tasks, now, starts, crawler_results,
                   example_results, db_pages, save_log>>

\* The oldest background task begins: results = crawler.crawl(urls), on
\* whatever crawler the global names by now.
run_crawler ==
    /\ tasks # <<>>
    /\ CrawlCall(Head(tasks), FALSE)
    /\ tasks' = Tail(tasks)
    /\ UNCHANGED <<crawler_global, crawler_status, now, starts, crawler_results,
                   example_results, db_pages,
                   save_log,
                   response>>

\* request.urls of the requests sent, and the anchors of the pages served
ApiUrls == {<<UrlA>>, <<UrlA, UrlB>>}
ApiHtmls == {<<>>, <<RelB>>, <<UrlBad>>}

ApiNext ==
    \/ \E urls \in ApiUrls : \E limit \in 0..MaxPagesLimit : start_crawl(urls, limit)
    \/ start_crawl_conflict
    \/ stop_crawl
    \/ stop_crawl_conflict
    \/ run_crawler
    \/ DiscardVisited
    \/ Dequeue
    \/ \E html \in ApiHtmls : FetchSuccess(html, url)
    \/ FetchFailure
    \/ ExtractRaises
    \/ ExtractAndMark
    \/ \E dump_ok \in BOOLEAN : Return(dump_ok)

SpecApi == Init /\ [][ApiNext]_vars

\* ------------------------------------------- the service (main, example)
\* start_urls of run_example_crawler (one https URL), and the anchors of the
\* pages its site serves
ExampleStartUrls == <<UrlC>>
ExampleHtmls == Htmls

\* main is loaded (its crawler_results is the value example.crawler_results
\* had at the import, None) and run_example_crawler has constructed its
\* TextCrawler(max_pages=10, use_database=True).
MainInit ==
    /\ max_pages = ExampleMaxPages
    /\ use_database = TRUE
    /\ InitRest

\* threaded_crawler up to the crawl() call inside run_example_crawler
threaded_crawler ==
    /\ pc = "idle"
    /\ CrawlCall(ExampleStartUrls, TRUE)
    /\ crawler_status' = [is_running |-> TRUE, start_time |-> now, end_time |-> 0,
                          pages_crawled |-> 0, last_activity |-> now]
    /\ now' = now + 1
    /\ UNCHANGED <<crawler_global, tasks, starts, crawler_results,
                   example_results, db_pages,
                   save_log,
                   response>>

\* progress_callback is update_crawler_status(pages_crawled)
update_crawler_status ==
    /\ CallbackCall
    /\ crawler_status' = [crawler_status EXCEPT !.pages_crawled = page_count,
                                                !.last_activity = now]
    /\ now' = now + 1
    /\ UNCHANGED <<crawler_global, tasks, starts, crawler_results,
                   example_results, db_pages,
                   save_log,
                   response>>

\* crawl() returns into run_example_crawler: example.crawler_results is
\* set and the two files are dumped.  If the dump succeeds threaded_crawler
\* binds main.crawler and updates the status; if it raises, the assignment
\* crawler, results = ... does not happen and the except clause records the
\* error.  main.crawler_results is assigned nowhere.
run_example_crawler(dump_ok) ==
    /\ CrawlReturns
    /\ example_results' = <<crawled_data>>
    /\ IF dump_ok
       THEN /\ crawler_global' = TRUE
            /\ crawler_status' = FinishStatus(crawler_status, Len(crawled_data), now)
            /\ errors' = errors
       ELSE /\ crawler_global' = crawler_global
            /\ crawler_status' = FailStatus(crawler_status, now)
            /\ errors' = Append(errors, "dump failed")
    /\ now' = now + 1
    /\ UNCHANGED <<tasks, starts, crawler_results, db_pages, save_log,
                   response>>

\* GET /crawl/results of main: 404 while main.crawler is None, else the
\* statistics of the crawler with the count and the first three entries of
\* main.crawler_results, or 0 and [] when that is None or empty.
get_results ==
    IF ~crawler_global THEN [status_code |-> 404]
    ELSE LET results == IF crawler_results = <<>> THEN <<>> ELSE crawler_results[1]
         IN [status_code |-> 200,
             stats |-> get_stats(page_count, visited_urls, crawled_data),
             data_count |-> Len(results),
             sample_data |-> SubSeq(results, 1, IF Len(results) < 3
                                                THEN Len(results) ELSE 3)]

MainNext ==
    \/ threaded_crawler
    \/ DiscardVisited
    \/ Dequeue
    \/ \E html \in ExampleHtmls : FetchSuccess(html, url)
    \/ FetchFailure
    \/ update_crawler_status
    \/ ExtractRaises
    \/ ExtractAndMark
    \/ \E dump_ok \in BOOLEAN : run_example_crawler(dump_ok)

SpecMain == MainInit /\ [][MainNext]_vars

\* ------------------------------- crawl() with a callback that may raise
\* anchors of the pages served, all parsable: none, a link to /a, two links
CallbackHtmls == {<<>>, <<UrlA>>, <<RelB, UrlC>>}

\* TextCrawler(max_pages >= 1, use_database=True) is constructed
CallbackInit ==
    /\ max_pages \in 1..MaxPagesLimit
    /\ use_database = TRUE
    /\ InitRest

\* crawl(seeds, progress_callback) where the callback returns or raises
CallbackNext ==
    \/ \E seeds \in SeedLists : Crawl(seeds, TRUE)
    \/ DiscardVisited
    \/ Dequeue
    \/ \E html \in CallbackHtmls : FetchSuccess(html, url)
    \/ FetchFailure
    \/ CallbackReturns
    \/ CallbackRaises
    \/ ExtractAndMark
    \/ \E dump_ok \in BOOLEAN : Return(dump_ok)

SpecCallback == CallbackInit /\ [][CallbackNext]_vars

\* ------------------------------------- crawl() of seeds of any kind
\* URLs a caller may pass: a page, an image and an ftp URL; the anchors of
\* the pages served: none, a link to /a (a self link on /a), the image (a
\* self link on the image), a relative link to /b with the ftp URL
AnySeedUrls == {UrlA, UrlPng, UrlFtp}
AnySeedLists == SeqsUpTo(AnySeedUrls, MaxSeeds)
AnySeedHtmls == {<<>>, <<UrlA>>, <<UrlPng>>, <<RelB, UrlFtp>>}

\* session.get answers http and https URLs only; for another scheme it
\* raises InvalidSchema, a RequestException, and _fetch_page returns None.
AnySeedNext ==
    \/ \E seeds \in AnySeedLists : Crawl(seeds, FALSE)
    \/ DiscardVisited
    \/ Dequeue
    \/ \E html \in AnySeedHtmls :
          UrlScheme(url) \in {"http", "https"} /\ FetchSuccess(html, url)
    \/ FetchFailure
    \/ ExtractAndMark
    \/ \E dump_ok \in BOOLEAN : Return(dump_ok)

SpecAnySeeds == Init /\ [][AnySeedNext]_vars

\* ------------------------------------------------- crawl() keeps running
\* anchors of the pages served: none, a link to /a (a self link on /a), two
\* new links, an unparsable one
LiveHtmls == {<<>>, <<UrlA>>, <<RelB, UrlC>>, <<UrlBad>>}

\* The steps crawl() takes by itself once called: the loop test, the fetch
\* (which returns in finite time), the callback, the link step, the return.
CrawlStep ==
    \/ DiscardVisited
    \/ Dequeue
    \/ \E html \in LiveHtmls : FetchSuccess(html, url)
    \/ FetchFailure
    \/ CallbackReturns
    \/ CallbackRaises
    \/ ExtractRaises
    \/ ExtractAndMark
    \/ \E dump_ok \in BOOLEAN : Return(dump_ok)

\* One crawl() call, made when the caller chooses
LiveNext ==
    \/ \E seeds \in SeedLists : \E cb \in BOOLEAN : pc = "idle" /\ Crawl(seeds, cb)
    \/ CrawlStep

\* The thread that executes crawl() keeps running: a step of crawl() that
\* can be taken is taken.
SpecLive == Init /\ [][LiveNext]_vars /\ WF_vars(CrawlStep)

\* ------------------------------------------------------- the table alone
\* data dictionaries handed to save_crawled_data: two URLs, three contents
DbRecords == [url : {UrlA, UrlB}, title : {"t1", "t2", "t3"}]

\* an empty table and a crawler that is not crawling
DbInit ==
    /\ max_pages = MaxPagesLimit
    /\ use_database = TRUE
    /\ InitRest

\* one completed call save_crawled_data(data, db), some time after the last
SaveCall(data) ==
    /\ Len(save_log) < MaxSaves
    /\ db_pages' = save_crawled_data(data, db_pages, now)
    /\ save_log' = Append(save_log, data)
    /\ now' = now + 1
    /\ UNCHANGED <<crawler, pc, start_urls, has_callback, url_queue, url,
                   page_data, returned, errors, runs, history, crawler_global,
                   crawler_status, tasks, starts, crawler_results,
                   example_results,
                   response>>

DbNext == \E data \in DbRecords : SaveCall(data)

SpecDb == DbInit /\ [][DbNext]_vars

\* ------------------------------------------------ fetches with redirects
\* One crawl, without callback, in which a fetch may have been redirected:
\* response.url is any of FinalUrls(url).
RedirectNext ==
    \/ \E seeds \in SeedLists : pc = "idle" /\ Crawl(seeds, FALSE)
    \/ DiscardVisited
    \/ Dequeue
    \/ \E html \in Htmls : \E final \in FinalUrls(url) : FetchSuccess(html, final)
    \/ FetchFailure
    \/ ExtractRaises
    \/ ExtractAndMark
    \/ \E dump_ok \in BOOLEAN : Return(dump_ok)

SpecRedirects == Init /\ [][RedirectNext]_vars

\* ------------------------------------------- the link step on its own
\* The first iteration of a first crawl has fetched its page and is about
\* to extract links: the seed is http or https, the page's anchors are drawn
\* from LinkHrefs.
LinkInit ==
    /\ InitHost
    /\ use_database = FALSE
    /\ max_pages \in 1..MaxPagesLimit
    /\ start_urls \in SeqsUpTo(LinkSeedUrls, MaxSeeds) \ {<<>>}
    /\ url = Head(start_urls)
    /\ url_queue = Tail(start_urls)
    /\ \E html \in SeqsUpTo(LinkHrefs, MaxLinks) :
           page_data = <<[url |-> url, html |-> html, final |-> url]>>
    /\ crawled_data = <<[url |-> url]>>
    /\ page_count = 1
    /\ visited_urls = {}
    /\ pc = "extract"
    /\ has_callback = FALSE
    /\ returned = <<>>
    /\ errors = <<>>
    /\ runs = 1
    /\ fetch_log = <<[url |-> url, ok |-> TRUE]>>
    /\ enq_log = start_urls
    /\ deq_log = <<url>>
    /\ cb_log = <<>>
    /\ sleeps = 0

LinkNext == ExtractRaises \/ ExtractAndMark

SpecLinks == LinkInit /\ [][LinkNext]_vars

\* ================================================================ claims
\* helpers of the formulas below
FailedFetches == {i \in DOMAIN fetch_log : ~fetch_log[i].ok}
PairwiseDistinctUrls(data) ==
    \A i, j \in DOMAIN data : i # j => data[i].url # data[j].url
Stats == get_stats(page_count, visited_urls, crawled_data)
\* an iteration has counted its page and not yet marked its URL visited
MidIteration == pc \in {"callback", "extract"}

\* C1: in every reachable state of a crawl run, and at return, page_count
\* never exceeds max_pages.
C1_PageCountWithinBudget == page_count <= max_pages

\* C1 witness: the budget is reached while URLs are still pending.
C1_Witness ==
    /\ pc = "loop"
    /\ max_pages >= 1
    /\ page_count = max_pages
    /\ url_queue # <<>>

\* C2 as stated: get_stats() reports pages_crawled <= urls_visited at every
\* point where it can be observed, the progress callback included.
C2_StatsOrderedEverywhere == Stats.pages_crawled <= Stats.urls_visited

\* C2 amended: get_stats() reports pages_crawled <= urls_visited whenever no
\* iteration is between counting its page and marking its URL visited (at
\* every loop test and after crawl returns); inside the progress callback
\* and up to the marking, pages_crawled exceeds urls_visited by at most one.
C2_StatsOrderedBetweenIterations ==
    /\ ~MidIteration => Stats.pages_crawled <= Stats.urls_visited
    /\ MidIteration => Stats.pages_crawled <= Stats.urls_visited + 1

\* C2 witness: a run has returned with two pages and a failed fetch, so that
\* urls_visited is strictly larger than pages_crawled.
C2_Witness ==
    /\ pc = "done"
    /\ Stats.pages_crawled = 2
    /\ Stats.urls_visited = 3

\* C3: within one run no URL is fetched twice, and every URL whose
\* processing is over is in visited_urls.
C3_NoRefetch ==
    /\ \A i, j \in DOMAIN fetch_log : i # j => fetch_log[i].url # fetch_log[j].url
    /\ \A i \in DOMAIN fetch_log :
          \/ fetch_log[i].url \in visited_urls
          \/ i = Len(fetch_log) /\ MidIteration

\* C3 witness: seeds [A, A]; both entries were dequeued, one fetch was made.
C3_Witness ==
    /\ start_urls = <<UrlA, UrlA>>
    /\ deq_log = <<UrlA, UrlA>>
    /\ Len(fetch_log) = 1

\* C4: the page sequence of the crawler, and so the sequence crawl returns,
\* never holds two entries with the same url.
C4_DistinctResultUrls ==
    /\ PairwiseDistinctUrls(crawled_data)
    /\ PairwiseDistinctUrls(returned)

\* C4 witness: a run returned two pages although some URL was dequeued twice.
C4_Witness ==
    /\ pc = "done"
    /\ Len(returned) = 2
    /\ \E i, j \in DOMAIN deq_log : i # j /\ deq_log[i] = deq_log[j]

\* C5: every invocation of crawl, a second one on the same object included,
\* enters its loop with the frontier equal to the seeds, an empty visited
\* set, no results and page_count = 0.
C5_EveryCrawlStartsClean ==
    (pc = "loop" /\ deq_log = <<>>) =>
        /\ url_queue = start_urls
        /\ visited_urls = {}
        /\ crawled_data = <<>>
        /\ page_count = 0

\* C6: with max_pages = 0 nothing is dequeued, fetched, extracted or
\* reported, and the result is empty.
C6_ZeroBudgetDoesNothing ==
    max_pages = 0 =>
        /\ pc \in {"idle", "loop", "done"}
        /\ deq_log = <<>>
        /\ fetch_log = <<>>
        /\ cb_log = <<>>
        /\ sleeps = 0
        /\ enq_log = start_urls
        /\ crawled_data = <<>>
        /\ returned = <<>>

\* C6 witness: a crawl with seeds and max_pages = 0 has returned.
C6_Witness ==
    /\ max_pages = 0
    /\ pc = "done"
    /\ start_urls = <<UrlA, UrlB>>

\* the link step of page A with anchors "/b" then C, both new
C7_LinksBehindPending ==
    (/\ pc = "extract"
     /\ page_count < max_pages
     /\ page_data[1].html = <<RelB, UrlC>>
     /\ url = UrlA
     /\ UrlB \notin Range(url_queue)
     /\ UrlC \notin Range(url_queue)
     /\ visited_urls = {})
    => url_queue' = url_queue \o <<UrlB, UrlC>>
\* the example run: seed A, A links to B then C, max_pages = 2, no failure
C7_BreadthFirstExample ==
    (/\ pc = "done"
     /\ runs = 1
     /\ max_pages = 2
     /\ start_urls = <<UrlA>>
     /\ enq_log = <<UrlA, UrlB, UrlC>>
     /\ FailedFetches = {})
    => /\ returned = <<[url |-> UrlA], [url |-> UrlB]>>
       /\ Len(fetch_log) = 2
\* C7: the frontier is FIFO.  The URLs dequeued so far followed by the
\* pending ones are the URLs inserted so far, in insertion order; the links
\* of a page go behind everything pending, in document order; seed A whose
\* page links to B then C, max_pages = 2 and no failed fetch give the
\* results [A, B] with exactly two fetches.
C7_Fifo ==
    /\ [](deq_log \o url_queue = enq_log)
    /\ [][C7_LinksBehindPending]_vars
    /\ []C7_BreadthFirstExample

\* C7 witness: the example run has returned.
C7_Witness ==
    /\ pc = "done"
    /\ runs = 1
    /\ max_pages = 2
    /\ start_urls = <<UrlA>>
    /\ enq_log = <<UrlA, UrlB, UrlC>>
    /\ FailedFetches = {}
    /\ url_queue = <<UrlC>>

\* a step of a run that inserts into the frontier is a link step with budget
C8_GrowthStep ==
    (pc \notin {"idle", "done"} /\ (enq_log' # enq_log \/ Len(url_queue') > Len(url_queue)))
    => (pc = "extract" /\ page_count < max_pages)
\* C8: the frontier grows only in the link step of a successful fetch that
\* left page_count < max_pages; a success that brings page_count up to
\* max_pages appends nothing.
C8_NoLinksAtBudget == [][C8_GrowthStep]_vars

\* C8 witness: the budget is reached by a page that carries a link which
\* would be enqueued if the budget test were not made.
C8_Witness ==
    /\ pc = "extract"
    /\ page_count = max_pages
    /\ ~_extract_links_raises(url, page_data[1].html)
    /\ EnqueueLinks(url_queue, _extract_links(url, page_data[1].html), visited_urls)
         # url_queue

\* the step in which _fetch_page returns None
C9_FailureStep ==
    (pc = "fetch" /\ Len(fetch_log') = Len(fetch_log) + 1
       /\ ~fetch_log'[Len(fetch_log')].ok)
    => /\ visited_urls' = visited_urls \cup {url}
       /\ page_count' = page_count
       /\ crawled_data' = crawled_data
       /\ url_queue' = url_queue
       /\ enq_log' = enq_log
       /\ pc' = "loop"
\* C9: a failed fetch of url marks url visited, leaves page_count, the
\* results and the frontier as they are, and goes back to the loop test.
C9_FailedFetchSkipped == [][C9_FailureStep]_vars

\* C9 witness: after a failed fetch the loop went on and fetched the next
\* frontier entry.
C9_Witness ==
    /\ Len(fetch_log) = 2
    /\ ~fetch_log[1].ok
    /\ fetch_log[2].ok
    /\ page_count = 1

\* C10: every failed fetch has its entry in the error list: during the
\* first run on a fresh status record the list has as many entries as
\* fetches have failed.
C10_FailuresRecorded ==
    runs = 1 => Len(errors) = Cardinality(FailedFetches)

\* an exception never leaves the loop: every step out of the middle of an
\* iteration goes on inside the run
C11_StaysInLoop ==
    pc \in {"fetch", "callback", "extract"} => pc' \in {"loop", "callback", "extract"}
\* C11: no error ends the crawl loop: a failed fetch, a raising callback
\* and a raising link extraction all lead back to the loop test, and
\* whenever crawl has returned the frontier is empty or page_count =
\* max_pages.
C11_OnlyExhaustionOrBudgetEnds ==
    /\ [](pc = "done" => (url_queue = <<>> \/ page_count = max_pages))
    /\ [][C11_StaysInLoop]_vars

\* C11 witness: a run with a failed fetch and with an iteration cut short by
\* an exception (it has no sleep) has returned with pending URLs.
C11_Witness ==
    /\ pc = "done"
    /\ FailedFetches # {}
    /\ Len(fetch_log) > sleeps
    /\ url_queue # <<>>

\* the file suffixes the link filter rejects, compared case-sensitively
C12_Suffixes == {".pdf", ".jpg", ".jpeg", ".png", ".gif", ".css", ".js"}
\* C12 (step): every URL the link step appends has scheme http or https, a
\* non-empty host and none of the suffixes; a completed link step with budget
\* appends an unvisited, unqueued link ending in .PNG.
C12_Step ==
    /\ \A u \in Range(url_queue') \ Range(url_queue) :
          /\ UrlScheme(u) \in {"http", "https"}
          /\ UrlNetloc(u) # ""
          /\ u[Len(u)] \notin C12_Suffixes
          /\ u \notin {UrlPng, UrlQueryJs}
    /\ ( /\ pc = "extract"
         /\ page_count < max_pages
         /\ sleeps' = sleeps + 1
         /\ UrlUpperPng \in Range(page_data[1].html) )
       => UrlUpperPng \in Range(url_queue')

\* C12: no URL from link extraction is appended to the frontier unless its
\* scheme is http or https, its host is non-empty and it does not end,
\* case-sensitively, with .pdf .jpg .jpeg .png .gif .css or .js; a link
\* ending in .png or with a query ending in .js is never enqueued, one
\* ending in .PNG is.
C12_OnlyValidLinksEnqueued == [][C12_Step]_vars

\* C12 witness: a link step that met .PNG and appended it, and nothing else.
C12_Witness ==
    /\ pc = "loop"
    /\ sleeps = 1
    /\ Len(enq_log) = Len(start_urls) + 1
    /\ enq_log[Len(enq_log)] = UrlUpperPng
    /\ url_queue # <<>>
    /\ url_queue[Len(url_queue)] = UrlUpperPng

\* the links of a page that can be parsed, resolve to a valid URL and are new
C13_GoodLinks ==
    {urljoin(url, page_data[1].html[i]) : i \in
        {j \in DOMAIN page_data[1].html :
            /\ ~urljoin_raises(url, page_data[1].html[j])
            /\ _is_valid_url(urljoin(url, page_data[1].html[j]))
            /\ urljoin(url, page_data[1].html[j]) \notin visited_urls}}
\* the link step of a page when budget is left
C13_Step ==
    (pc = "extract" /\ page_count < max_pages)
    => (C13_GoodLinks \subseteq Range(url_queue') /\ sleeps' = sleeps + 1)
\* C13: an href that cannot be parsed is dropped silently: the link step
\* ends normally and every other valid link of the page is in the frontier
\* after it.
C13_MalformedHrefDropped == [][C13_Step]_vars

\* C14: over a run with a progress callback the callback arguments are
\* exactly 1, 2, ..., n in that order, n the length of the returned results.
C14_CallbackCountsResults ==
    (pc = "done" /\ has_callback) => cb_log = [i \in 1..Len(returned) |-> i]

\* C15: the engine sleeps exactly once after every processed URL (dequeued
\* and not already visited) and never after a duplicate discard: between
\* iterations the number of sleeps is the number of URLs processed.
C15_OneSleepPerProcessedUrl ==
    pc \in {"loop", "done"} => sleeps = Len(fetch_log)

\* C16: when a run ends, pages_crawled = data_collected = number of URLs the
\* run fetched successfully, and urls_visited = pages_crawled + number of
\* URLs whose fetch failed.
C16_StatsMatchFetches ==
    pc = "done" =>
        /\ Stats.pages_crawled = Stats.data_collected
        /\ Stats.pages_crawled = Len(fetch_log) - Cardinality(FailedFetches)
        /\ Stats.urls_visited = Stats.pages_crawled + Cardinality(FailedFetches)

\* C17: a failure of a persistence collaborator discards and alters nothing:
\* after a run that produced results and whose file dump failed (the failure
\* is in the status errors) the returned sequence is still the crawler's
\* data and get-results still answers with the statistics of all of it.
C17_PersistenceFailureKeepsResults ==
    (pc = "done" /\ errors # <<>> /\ returned # <<>>)
    => /\ returned = crawled_data
       /\ get_results.status_code = 200
       /\ get_results.stats.data_collected = Len(returned)

\* the first min(3, n) entries of a sequence
C18_Sample(results) ==
    SubSeq(results, 1, IF Len(results) < 3 THEN Len(results) ELSE 3)
\* C18: after a completed run that produced n results, get-results returns
\* the run's statistics, data_count = n and as sample_data the first
\* min(3, n) results in order.
C18_GetResultsReturnsRun ==
    (pc = "done" /\ errors = <<>>)
    => /\ get_results.status_code = 200
       /\ get_results.stats = Stats
       /\ get_results.data_count = Len(returned)
       /\ get_results.sample_data = C18_Sample(returned)

\* C19 (step): what a stop step, a step of a stopped loop and the finishing
\* step of run_crawler do.
C19_Step ==
    /\ (crawler_status.is_running /\ ~crawler_status'.is_running /\ pc' = pc)
       => /\ crawler_status'.end_time = now
          /\ crawler_status'.start_time = crawler_status.start_time
          /\ crawler_status'.pages_crawled = crawler_status.pages_crawled
          /\ UNCHANGED <<crawler, url_queue, url, page_data, tasks, errors,
                         returned, runs, crawler_global>>
    /\ (pc \in {"fetch", "extract"} /\ ~crawler_status.is_running)
       => pc' \in {"loop", "extract"}
    /\ (pc = "loop" /\ pc' # "loop" /\ ~crawler_status.is_running)
       => IF url_queue = <<>> \/ page_count >= max_pages
          THEN pc' = "done" ELSE pc' = "fetch"
    /\ (pc = "loop" /\ pc' = "done")
       => /\ ~crawler_status'.is_running
          /\ crawler_status'.end_time >= now
          /\ crawler_status'.end_time > crawler_status.end_time
          /\ crawler_status'.pages_crawled = Len(returned')

C20_UrlIsFinalUrl ==
    page_data # <<>> => page_data[1].url = page_data[1].final

\* C20 amended: the url field of a PageResult is the URL that was dequeued
\* and requested, whatever final URL the fetcher reports; distinct frontier
\* URLs redirected to one final URL give PageResults with distinct url
\* values.
C20_UrlIsRequestedUrl ==
    /\ page_data # <<>> =>
          /\ page_data[1].url = url
          /\ crawled_data[Len(crawled_data)].url = url
    /\ PairwiseDistinctUrls(crawled_data)

\* C20 witness: the second of two pages was redirected: the fetcher
\* reports a final URL other than the one requested.
C20_Witness ==
    /\ page_data # <<>>
    /\ page_data[1].final # url
    /\ page_data[1].final = UrlC
    /\ Len(crawled_data) = 2


\* the last save made for a URL
LastSaveOf(u) ==
    save_log[CHOOSE k \in DOMAIN save_log :
                 /\ save_log[k].url = u
                 /\ \A m \in DOMAIN save_log : save_log[m].url = u => m <= k]
\* C21 (state): one row per distinct URL saved, with the content of the
\* most recent save of that URL.
C21_OneRowPerUrl ==
    /\ \A i, j \in DOMAIN db_pages :
          db_pages[i].url = db_pages[j].url => i = j
    /\ {db_pages[i].url : i \in DOMAIN db_pages}
          = {save_log[k].url : k \in DOMAIN save_log}
    /\ \A i \in DOMAIN db_pages :
          db_pages[i].title = LastSaveOf(db_pages[i].url).title
\* C21 (step): saving the record that was saved last changes nothing.
C21_SameSaveStep ==
    ( /\ save_log # <<>>
      /\ Len(save_log') = Len(save_log) + 1
      /\ save_log'[Len(save_log')] = save_log[Len(save_log)] )
    => db_pages' = db_pages
\* C21: persisting is an upsert by exact URL: from an empty table, after any
\* sequence of saves there is exactly one row per distinct URL saved, the
\* row carries the fields of the most recent save for that URL, and saving
\* the same record twice leaves the table as after saving it once.
C21_SaveIsUpsert == []C21_OneRowPerUrl /\ [][C21_SameSaveStep]_vars

\* C21 witness: three saves over two URLs left two rows; the third save
\* overwrote the content of the first row.
C21_Witness ==
    /\ Len(save_log) = 3
    /\ Len(db_pages) = 2
    /\ save_log[1].url = save_log[3].url
    /\ save_log[1].title # save_log[3].title
    /\ db_pages[1].title = save_log[3].title
    /\ db_pages[1].updated_at # 0


\* C22 (state): the fetch attempts of a run are at most the distinct URLs
\* that ever entered the frontier in that run.
C22_FetchesBounded == Len(fetch_log) <= Cardinality(Range(enq_log))
\* C22: every crawl run eventually returns, and the number of fetch attempts
\* in a run is bounded by the number of distinct URLs that ever entered the
\* frontier, also when failed fetches consume none of the page budget.
C22_RunTerminates ==
    /\ []C22_FetchesBounded
    /\ (pc \in {"loop", "fetch", "callback", "extract"}) ~> (pc = "done")

\* C22 witness: a run has returned after attempting every URL that entered
\* its frontier, one of them in vain, with budget to spare.
C22_Witness ==
    /\ pc = "done"
    /\ FailedFetches # {}
    /\ Len(fetch_log) >= 2
    /\ Len(fetch_log) = Cardinality(Range(enq_log))
    /\ page_count < max_pages


\* number of positions of a sequence that hold u
Occurrences(seq, u) == Cardinality({i \in DOMAIN seq : seq[i] = u})
\* the URLs a step puts into the frontier: the seeds when crawl() is called,
\* else what the frontier holds more than before
C23_Added ==
    IF runs' # runs THEN Range(url_queue') ELSE Range(url_queue') \ Range(url_queue)
\* C23 as stated: the frontier never holds a URL at two positions, and no
\* URL that is in the visited set is ever added to the frontier.
C23_NoDuplicateNoVisited ==
    [][ /\ \A i, j \in DOMAIN url_queue' : url_queue'[i] = url_queue'[j] => i = j
        /\ C23_Added \cap visited_urls = {} ]_vars

\* C23 (state): a URL is in the frontier more than once only as often as
\* the seed list names it.
C23_DuplicatesOnlyFromSeeds ==
    \A u \in Range(url_queue) :
        Occurrences(url_queue, u) > 1
        => Occurrences(url_queue, u) <= Occurrences(start_urls, u)
\* C23 (step): the link step appends to the frontier, and what it appends
\* is pairwise distinct, not in the frontier before and not visited.
C23_LinkStep ==
    pc = "extract"
    => LET appended == SubSeq(url_queue', Len(url_queue) + 1, Len(url_queue'))
       IN /\ SubSeq(url_queue', 1, Len(url_queue)) = url_queue
          /\ \A i, j \in DOMAIN appended : appended[i] = appended[j] => i = j
          /\ Range(appended) \cap Range(url_queue) = {}
          /\ Range(appended) \cap visited_urls = {}
\* C23 amended: link extraction never adds a URL that is pending in the
\* frontier or in the visited set; the seed list is taken as it is, so the
\* frontier holds a URL twice only where the seed list does.
C23_LinksAddedOnce == []C23_DuplicatesOnlyFromSeeds /\ [][C23_LinkStep]_vars

\* C23 witness: of a seed named twice one copy was fetched and is visited,
\* the other is still pending, and the link step has appended a new URL
\* behind it.
C23_Witness ==
    /\ pc = "loop"
    /\ start_urls = <<UrlA, UrlA>>
    /\ url_queue = <<UrlA, UrlB>>
    /\ UrlA \in visited_urls

\* ---------------------------------------------------------------- C24
\* the step is the begin of a background task's crawl loop
C24_LoopBegins == Len(tasks') < Len(tasks)

C25_Conflict(request) ==
    /\ response' # response
    /\ response' = [request |-> request, code |-> 409]

\* C25 (step): a start is accepted only while is_running is false and a
\* stop only while it is true; a start answered 409 changes neither the
\* status nor the crawler nor the tasks, a stop answered 409 leaves the
\* status unchanged.
C25_Step ==
    /\ starts' # starts
       => ~crawler_status.is_running /\ response'.code = 200
    /\ (response'.request = "stop" /\ response'.code = 200 /\ pc' = pc
          /\ crawler_status' # crawler_status)
       => crawler_status.is_running
    /\ C25_Conflict("start")
       => /\ crawler_status.is_running
          /\ UNCHANGED <<crawler_status, crawler_global, crawler, runs, tasks,
                         starts, now>>
    /\ C25_Conflict("stop")
       => /\ ~crawler_status.is_running
          /\ UNCHANGED <<crawler_status, crawler_global, crawler, runs, tasks,
                         starts, now>>

\* C25: start while is_running and stop while not is_running are answered
\* 409 and change nothing of the status, the crawler or the tasks.
C25_ConflictsChangeNothing == [][C25_Step]_vars

\* a start was just answered 409 while a task of the running job is pending
C25_Witness ==
    /\ response = [request |-> "start", code |-> 409]
    /\ crawler_status.is_running
    /\ tasks # <<>>

\* ---------------------------------------------------------------- C26
\* the step is the raise of progress_callback for the page just fetched
C26_CallbackRaised == pc = "callback" /\ pc' = "loop"

\* C26 (step): the page of a raising callback is the last result and stays
\* so, stays counted, its URL becomes visited, the loop goes on with the
\* Frontier as it was: nothing enqueued, nothing saved, no sleep.
C26_Step ==
    C26_CallbackRaised
    => /\ crawled_data # <<>>
       /\ crawled_data[Len(crawled_data)].url = url
       /\ crawled_data' = crawled_data
       /\ page_count' = page_count
       /\ visited_urls' = visited_urls \cup {url}
       /\ url_queue' = url_queue
       /\ enq_log' = enq_log
       /\ db_pages' = db_pages
       /\ save_log' = save_log
       /\ sleeps' = sleeps

\* a page whose callback raised is in what crawl() returns: every URL
\* fetched successfully since the crawler was constructed is a result
C26_PageKept ==
    \A i \in 1..Len(fetch_log) :
        fetch_log[i].ok => \E j \in 1..Len(crawled_data) :
                              crawled_data[j].url = fetch_log[i].url

C27_FetchedSeedOrValid ==
    \A i \in 1..Len(fetch_log) :
        \/ fetch_log[i].url \in Range(start_urls)
        \/ _is_valid_url(fetch_log[i].url)

\* a crawl that returned with budget left has visited every one of its
\* seeds, valid or not
C27_SeedsVisited ==
    (pc = "done" /\ runs > 0 /\ page_count < max_pages)
    => Range(start_urls) \subseteq visited_urls

\* C27 (step): the head of the Frontier is dequeued whatever the filter
\* says of it, and if it is not visited a fetch is attempted on it.
C27_Step ==
    /\ (pc = "loop" /\ pc' = "fetch")
       => url' = Head(url_queue) /\ url_queue' = Tail(url_queue)
    /\ (pc = "fetch" /\ pc' # "fetch")
       => /\ Len(fetch_log') = Len(fetch_log) + 1
          /\ fetch_log'[Len(fetch_log')].url = url

\* C27: seeds bypass the validity filter: a fetch is attempted only on seeds
\* and on links that passed the filter, and a seed the filter rejects (an
\* image, an ftp URL) is dequeued, fetched or attempted, and marked visited.
C27_SeedsBypassFilter ==
    /\ [](C27_FetchedSeedOrValid /\ C27_SeedsVisited)
    /\ [][C27_Step]_vars

\* the image and the ftp URL were seeds, both rejected by the filter, both
\* had a fetch attempted and are visited
C27_Witness ==
    /\ start_urls = <<UrlPng, UrlFtp>>
    /\ ~_is_valid_url(UrlPng) /\ ~_is_valid_url(UrlFtp)
    /\ \E i, j \in 1..Len(fetch_log) :
          fetch_log[i].url = UrlPng /\ fetch_log[j].url = UrlFtp
    /\ {UrlPng, UrlFtp} \subseteq visited_urls

\* ---------------------------------------------------------------- C28
\* the step is the link step of an iteration with budget left
C28_LinkStep ==
    /\ pc = "extract" /\ pc' = "loop"
    /\ sleeps' = sleeps + 1
    /\ BudgetLeft(page_count, max_pages)

\* the page being processed has an anchor that resolves to its own URL
C28_LinksToItself ==
    \E i \in 1..Len(page_data[1].html) : urljoin(url, page_data[1].html[i]) = url

\* C28 as stated: at the link step the URL being processed is neither
\* visited nor in the Frontier, and a page that links to itself has its own
\* URL appended to the Frontier.
C28_SelfLinkAlwaysAppended ==
    [][C28_LinkStep
       => /\ url \notin visited_urls
          /\ url \notin Range(url_queue)
          /\ C28_LinksToItself
             => Occurrences(url_queue', url) = Occurrences(url_queue, url) + 1]_vars

\* C28 (step): at the link step the URL being processed is not visited; a
\* self link that passes the filter is appended, once, unless the URL is
\* still pending as a repeated seed; the URL is visited afterwards.  A
\* discarded entry causes no fetch, result, callback or sleep, and a fetch
\* is never begun on a visited URL.
C28_Step ==
    /\ C28_LinkStep
       => /\ url \notin visited_urls
          /\ url \in visited_urls'
          /\ url \in Range(url_queue)
             => /\ Occurrences(url_queue', url) = Occurrences(url_queue, url)
                /\ Occurrences(start_urls, url) > 1
          /\ (url \notin Range(url_queue) /\ C28_LinksToItself)
             => Occurrences(url_queue', url) = IF _is_valid_url(url) THEN 1 ELSE 0
    /\ (pc = "loop" /\ pc' = "loop")
       => /\ Head(url_queue) \in visited_urls
          /\ url_queue' = Tail(url_queue)
          /\ UNCHANGED <<fetch_log, crawled_data, page_count, cb_log, sleeps,
                         visited_urls>>
    /\ (pc = "loop" /\ pc' = "fetch")
       => Head(url_queue) \notin visited_urls

\* C28: the URL being processed is not yet visited while its links are
\* enqueued, so a valid self link puts the URL into the Frontier again when
\* budget remains (unless a repeated seed keeps it pending there already);
\* that entry is discarded at dequeue without fetch, result, callback, sleep.
C28_SelfLinkDiscarded == [][C28_Step]_vars

\* /a linked to itself: it was enqueued again by its own link step and that
\* entry was dequeued and discarded: two dequeues, one fetch, one sleep
C28_Witness ==
    /\ start_urls = <<UrlA>>
    /\ enq_log = <<UrlA, UrlA>>
    /\ deq_log = <<UrlA, UrlA>>
    /\ Len(fetch_log) = 1
    /\ sleeps = 1
    /\ page_count = 1
    /\ pc = "loop"


====
